---- MODULE Spec2Model ----
(***************************************************************************)
(* nv::SensorCamera (src/nv_sensors/src/camera.cpp): the lifecycle         *)
(* controller (initialize / start / stop, run on the caller thread) and    *)
(* the acquisition loop (run_camera, run on m_cameraThread).               *)
(*                                                                         *)
(* The caller thread and the worker thread interleave at every call into   *)
(* the device pipeline and at every access to m_cameraRun.  Every device   *)
(* pipeline call returns a status chosen nondeterministically.             *)
(***************************************************************************)
EXTENDS Integers, Sequences, FiniteSets, TLC

\* ------------------------------------------------------------------ bounds
\* number of initialize/start/stop calls the caller makes in one behaviour
MaxCalls ==
  3

\* number of frames the sensor delivers to one worker
MaxReads ==
  2

\* ------------------------------------------------------------ value spaces
\* handle values: 0 is the null handle, k > 0 is the handle created by call k
NULL == 0
Ids == 1..MaxCalls

Kinds == {"sensor", "rgba", "resized", "streamer"}

\* m_shrinkFactor in tenths (5 is the factor 0.5, 10 the factor 1.0, 20 the factor 2.0)
ShrinkFactors == {5, 10, 20}

\* width and height of the sensor's native image
NativeSizes == {<<1920, 1080>>, <<1921, 1081>>}

\* the buffers and the registration that carry an image format
FormatKinds == {"rgba", "resized", "streamer"}

ReadStatuses ==
  {"DW_SUCCESS", "DW_END_OF_STREAM", "DW_TIME_OUT", "DW_NOT_READY", "DW_FAILURE"}
Statuses == {"DW_SUCCESS", "DW_FAILURE"}

VARIABLES
  \* caller thread
  cpc,            \* position of the caller thread ("idle" between calls)
  op,             \* the call being executed, or the last one executed
  ret,            \* outcome of the last completed call
  ncalls,         \* calls made so far; a start call creates handles numbered by it
  prev,           \* <<op, ret>> of the call completed before the current one
  imageProperties, \* start's local: <<width, height>>
  native,         \* <<width, height>> of the camera's native processed output
  \* SensorCamera fields
  m_cameraRun,
  m_camera,
  m_rgbaFrame,
  m_imageResized,
  m_streamer,
  m_engine,       \* m_imageTransformationEngine
  m_shrinkFactor,
  \* device pipeline
  res,            \* res[kind][id]: "none", "live", "released", "double"
  chan,           \* chan[id]: the calls made on streamer id since its last send
  dims,           \* dims[kind][id]: <<width, height>> the handle was created with
  \* worker thread (m_cameraThread and the locals of run_camera)
  wpc,            \* "none": no thread; "done": returned, not yet joined
  status,
  frameHeld,      \* a frame was read and not yet returned to the sensor
  pair_id,
  image,          \* header.seq of the message being built
  xform,          \* result of copyFullImage in this iteration
  nOk,            \* frames read successfully by this worker
  pubSeq,         \* header.seq of the messages published by this worker
  wexit,          \* why the worker left the loop
  sentBuf,        \* the image handle given to the last producerSend
  terminated,     \* std::terminate was called
  \* the timestamp conversion of run_camera
  timestamp,      \* dwTime_t, microseconds, as eight base-256 limbs (low first)
  stamp           \* header.stamp: sec as four base-256 limbs, nsec

callerVars == <<cpc, op, ret, ncalls, prev, imageProperties, native, dims>>
fieldVars == <<m_camera, m_rgbaFrame, m_imageResized, m_streamer, m_engine, m_shrinkFactor>>
workerVars == <<wpc, status, frameHeld, pair_id, image, xform, nOk, pubSeq, wexit>>
vars == <<cpc, op, ret, ncalls, m_cameraRun, m_camera, m_rgbaFrame, m_imageResized,
          m_streamer, m_engine, m_shrinkFactor, res, chan, wpc, status, frameHeld,
          pair_id, image, xform, nOk, pubSeq, wexit, terminated,
          prev, imageProperties, native, dims, sentBuf, timestamp, stamp>>

\* ---------------------------------------------------------------- helpers
\* the device pipeline creates a handle
Created(r, kind, id) ==
  [r EXCEPT ![kind][id] = "live"]

\* the device pipeline is asked to release handle h
Released(r, kind, h) ==
  IF h = NULL THEN r
  ELSE [r EXCEPT ![kind][h] = IF @ = "live" THEN "released" ELSE "double"]

\* if (m_shrinkFactor > 1.0f)
ResizeEnabled ==
  m_shrinkFactor > 10

\* the call finishes and control is back with the caller
Return(r) ==
  /\ cpc' = "idle"
  /\ ret' = r

\* the zero timestamp
NoTime == <<0, 0, 0, 0, 0, 0, 0, 0>>

\* the instance after its construction and initialize
Constructed ==
  /\ cpc = "idle"
  /\ op = "initialize"
  /\ ret = "void"
  /\ ncalls = 0
  /\ prev = <<"none", "none">>
  /\ imageProperties = <<0, 0>>
  /\ native \in NativeSizes
  /\ dims = [k \in FormatKinds |-> [i \in Ids |-> <<0, 0>>]]
  /\ sentBuf = <<"none", NULL>>
  /\ stamp = <<>>
  /\ m_cameraRun = FALSE
  /\ m_camera = NULL
  /\ m_rgbaFrame = NULL
  /\ m_imageResized = NULL
  /\ m_streamer = NULL
  /\ m_engine = NULL
  /\ m_shrinkFactor \in ShrinkFactors
  /\ res = [k \in Kinds |-> [i \in Ids |-> "none"]]
  /\ chan = [i \in Ids |-> <<>>]
  /\ wpc = "none"
  /\ status = "DW_SUCCESS"
  /\ frameHeld = FALSE
  /\ pair_id = 0
  /\ image = 0
  /\ xform = "none"
  /\ nOk = 0
  /\ pubSeq = <<>>
  /\ wexit = "none"
  /\ terminated = FALSE

Init ==
  /\ Constructed
  /\ timestamp = NoTime

\* a call enters: the caller is idle and the process is alive
Enter(name) ==
  /\ ~terminated
  /\ cpc = "idle"
  /\ ncalls < MaxCalls
  /\ ncalls' = ncalls + 1
  /\ op' = name
  /\ prev' = <<op, ret>>
  /\ UNCHANGED <<imageProperties, native, dims, sentBuf, timestamp, stamp>>

\* a later step of start that works on imageProperties
StartStep(at) ==
  /\ ~terminated
  /\ cpc = at
  /\ UNCHANGED <<op, ncalls, prev, native, sentBuf, timestamp, stamp>>

\* a later step of the call in progress
Step(at) ==
  /\ StartStep(at)
  /\ UNCHANGED <<imageProperties, dims>>

\* ------------------------------------------------------------- initialize
Initialize ==
  /\ Enter("initialize")
  /\ m_cameraRun' = FALSE
  /\ Return("void")
  /\ UNCHANGED <<fieldVars, res, chan, workerVars, terminated>>

\* ------------------------------------------------------------------ start
\* dwSAL_createSensor
StartCreateSensor ==
  /\ Enter("start")
  /\ \E st \in Statuses :
       IF st # "DW_SUCCESS"
       THEN /\ Return("false")
            /\ UNCHANGED <<m_camera, res>>
       ELSE /\ m_camera' = ncalls'
            /\ res' = Created(res, "sensor", ncalls')
            /\ cpc' = "start_props"
            /\ ret' = "pending"
  /\ UNCHANGED <<m_cameraRun, m_rgbaFrame, m_imageResized, m_streamer, m_engine,
                 m_shrinkFactor, chan, workerVars, terminated>>

\* dwSensorCamera_getImageProperties
StartGetImageProperties ==
  /\ StartStep("start_props")
  /\ \E st \in Statuses :
       IF st # "DW_SUCCESS"
       THEN /\ res' = Released(res, "sensor", m_camera)
            /\ Return("false")
            /\ imageProperties' = <<0, 0>>
       ELSE /\ imageProperties' = native
            /\ cpc' = "start_rgba"
            /\ UNCHANGED <<res, ret>>
  /\ UNCHANGED dims
  /\ UNCHANGED <<m_cameraRun, fieldVars, chan, workerVars, terminated>>

\* dwImage_create(&m_rgbaFrame[0], ...)
StartCreateRgba ==
  /\ StartStep("start_rgba")
  /\ UNCHANGED imageProperties
  /\ \E st \in Statuses :
       IF st # "DW_SUCCESS"
       THEN /\ res' = Released(res, "sensor", m_camera)
            /\ Return("false")
            /\ UNCHANGED <<m_rgbaFrame, dims>>
       ELSE /\ m_rgbaFrame' = ncalls
            /\ res' = Created(res, "rgba", ncalls)
            /\ dims' = [dims EXCEPT !["rgba"][ncalls] = imageProperties]
            /\ cpc' = IF ResizeEnabled THEN "start_resize" ELSE "start_streamer"
            /\ UNCHANGED ret
  /\ UNCHANGED <<m_cameraRun, m_camera, m_imageResized, m_streamer, m_engine,
                 m_shrinkFactor, chan, workerVars, terminated>>

\* the dimension left as the sensor reported it
Shrunk_notApplied(x) ==
  x

\* imageProperties.width /= m_shrinkFactor: the quotient of the float division
\* converted back to the unsigned field, which drops the fraction
Shrunk(x) ==
  (x * 10) \div m_shrinkFactor

\* the m_shrinkFactor > 1.0f block: the transformation engine and
\* CHECK_DW_ERROR(dwImage_create(&m_imageResized, ...)), which throws
StartCreateResized ==
  /\ StartStep("start_resize")
  /\ m_engine' = ncalls
  /\ imageProperties' = <<Shrunk(imageProperties[1]), Shrunk(imageProperties[2])>>
  /\ \E st \in Statuses :
       IF st # "DW_SUCCESS"
       THEN /\ Return("throw")
            /\ UNCHANGED <<m_imageResized, res, dims>>
       ELSE /\ m_imageResized' = ncalls
            /\ res' = Created(res, "resized", ncalls)
            /\ dims' = [dims EXCEPT !["resized"][ncalls] = imageProperties']
            /\ cpc' = "start_streamer"
            /\ UNCHANGED ret
  /\ UNCHANGED <<m_cameraRun, m_camera, m_rgbaFrame, m_streamer, m_shrinkFactor,
                 chan, workerVars, terminated>>

\* a rollback that also releases the streamer handle field
StartStreamerInit_releasesStreamer ==
  /\ StartStep("start_streamer")
  /\ UNCHANGED imageProperties
  /\ \E st \in Statuses :
       IF st # "DW_SUCCESS"
       THEN /\ res' = Released(Released(Released(Released(res, "streamer", m_streamer),
                                                 "resized", m_imageResized),
                                        "rgba", m_rgbaFrame),
                               "sensor", m_camera)
            /\ Return("false")
            /\ UNCHANGED <<m_streamer, chan, dims>>
       ELSE /\ m_streamer' = ncalls
            /\ res' = Created(res, "streamer", ncalls)
            /\ dims' = [dims EXCEPT !["streamer"][ncalls] = imageProperties]
            /\ chan' = [chan EXCEPT ![ncalls] = <<>>]
            /\ cpc' = "start_sensor"
            /\ UNCHANGED ret
  /\ UNCHANGED <<m_cameraRun, m_camera, m_rgbaFrame, m_imageResized, m_engine,
                 m_shrinkFactor, workerVars, terminated>>

\* dwImageStreamer_initialize
StartStreamerInit ==
  /\ StartStep("start_streamer")
  /\ UNCHANGED imageProperties
  /\ \E st \in Statuses :
       IF st # "DW_SUCCESS"
       THEN /\ res' = Released(Released(Released(res, "resized", m_imageResized),
                                        "rgba", m_rgbaFrame),
                               "sensor", m_camera)
            /\ Return("false")
            /\ UNCHANGED <<m_streamer, chan, dims>>
       ELSE /\ m_streamer' = ncalls
            /\ res' = Created(res, "streamer", ncalls)
            /\ dims' = [dims EXCEPT !["streamer"][ncalls] = imageProperties]
            /\ chan' = [chan EXCEPT ![ncalls] = <<>>]
            /\ cpc' = "start_sensor"
            /\ UNCHANGED ret
  /\ UNCHANGED <<m_cameraRun, m_camera, m_rgbaFrame, m_imageResized, m_engine,
                 m_shrinkFactor, workerVars, terminated>>

\* dwSensor_start
StartSensorStart ==
  /\ Step("start_sensor")
  /\ \E st \in Statuses :
       IF st # "DW_SUCCESS"
       THEN /\ res' = Released(res, "sensor", m_camera)
            /\ Return("false")
       ELSE /\ cpc' = "start_spawn"
            /\ UNCHANGED <<res, ret>>
  /\ UNCHANGED <<m_cameraRun, fieldVars, chan, workerVars, terminated>>

\* m_cameraThread = std::thread(&SensorCamera::run_camera, this);
\* move-assigning to a thread that is still joinable calls std::terminate
StartSpawn ==
  /\ Step("start_spawn")
  /\ IF wpc # "none"
     THEN /\ terminated' = TRUE
          /\ UNCHANGED <<cpc, workerVars>>
     ELSE /\ wpc' = "top"
          /\ status' = "DW_SUCCESS"
          /\ frameHeld' = FALSE
          /\ pair_id' = 0
          /\ image' = 0
          /\ xform' = "none"
          /\ nOk' = 0
          /\ pubSeq' = <<>>
          /\ wexit' = "none"
          /\ cpc' = "start_setrun"
          /\ UNCHANGED terminated
  /\ UNCHANGED <<ret, m_cameraRun, fieldVars, res, chan>>

\* m_cameraRun = true; return true;
StartSetRun ==
  /\ Step("start_setrun")
  /\ m_cameraRun' = TRUE
  /\ Return("true")
  /\ UNCHANGED <<fieldVars, res, chan, workerVars, terminated>>

\* ------------------------------------------------------------------- stop
\* stop without the test of m_cameraRun
StopEnter_noGuard ==
  /\ Enter("stop")
  /\ m_cameraRun' = FALSE
  /\ cpc' = "stop_join"
  /\ ret' = "pending"
  /\ UNCHANGED <<fieldVars, res, chan, workerVars, terminated>>

\* stop that also refuses when the worker has already left its loop
StopEnter_refusesExited ==
  /\ Enter("stop")
  /\ IF ~m_cameraRun \/ wpc = "done"
     THEN /\ Return("false")
          /\ UNCHANGED m_cameraRun
     ELSE /\ m_cameraRun' = FALSE
          /\ cpc' = "stop_join"
          /\ ret' = "pending"
  /\ UNCHANGED <<fieldVars, res, chan, workerVars, terminated>>

\* if (!m_cameraRun) return false;  m_cameraRun = false;
StopEnter ==
  /\ Enter("stop")
  /\ IF ~m_cameraRun
     THEN /\ Return("false")
          /\ UNCHANGED m_cameraRun
     ELSE /\ m_cameraRun' = FALSE
          /\ cpc' = "stop_join"
          /\ ret' = "pending"
  /\ UNCHANGED <<fieldVars, res, chan, workerVars, terminated>>

\* if (m_cameraThread.joinable()) m_cameraThread.join();
StopJoin ==
  /\ Step("stop_join")
  /\ wpc \in {"none", "done"}
  /\ wpc' = "none"
  /\ cpc' = "stop_streamer"
  /\ UNCHANGED <<ret, m_cameraRun, fieldVars, res, chan, status, frameHeld, pair_id,
                 image, xform, nOk, pubSeq, wexit, terminated>>

\* if (m_streamerNvmediaToCpuProcessed[0]) dwImageStreamer_release(...)
StopReleaseStreamer ==
  /\ Step("stop_streamer")
  /\ res' = Released(res, "streamer", m_streamer)
  /\ cpc' = "stop_rgba"
  /\ UNCHANGED <<ret, m_cameraRun, fieldVars, chan, workerVars, terminated>>

\* stop that leaves the rgba buffer allocated
StopDestroyRgba_skipped ==
  /\ Step("stop_rgba")
  /\ cpc' = "stop_resized"
  /\ UNCHANGED <<ret, m_cameraRun, fieldVars, res, chan, workerVars, terminated>>

\* if (m_rgbaFrame[0]) dwImage_destroy(m_rgbaFrame[0])
StopDestroyRgba ==
  /\ Step("stop_rgba")
  /\ res' = Released(res, "rgba", m_rgbaFrame)
  /\ cpc' = "stop_resized"
  /\ UNCHANGED <<ret, m_cameraRun, fieldVars, chan, workerVars, terminated>>

\* if (m_imageResized) dwImage_destroy(m_imageResized)
StopDestroyResized ==
  /\ Step("stop_resized")
  /\ res' = Released(res, "resized", m_imageResized)
  /\ cpc' = "stop_sensor"
  /\ UNCHANGED <<ret, m_cameraRun, fieldVars, chan, workerVars, terminated>>

\* if (m_camera[0]) dwSAL_releaseSensor(m_camera[0]);  return true;
StopReleaseSensor ==
  /\ Step("stop_sensor")
  /\ res' = Released(res, "sensor", m_camera)
  /\ Return("true")
  /\ UNCHANGED <<m_cameraRun, fieldVars, chan, workerVars, terminated>>

\* ------------------------------------------------------------- run_camera
\* a step of the worker thread
WStep(at) ==
  /\ ~terminated
  /\ wpc = at
  /\ UNCHANGED <<sentBuf, timestamp, stamp>>

\* continue written where break belongs
Break_continue ==
  /\ wpc' = "top"
  /\ wexit' = "fatal"

\* break: the worker leaves the loop and run_camera returns
Break ==
  /\ wpc' = "done"
  /\ wexit' = "fatal"

\* while (m_cameraRun)
WorkerTestRun ==
  /\ WStep("top")
  /\ IF m_cameraRun
     THEN /\ wpc' = "read"
          /\ UNCHANGED wexit
     ELSE /\ wpc' = "done"
          /\ wexit' = "flag"
  /\ UNCHANGED <<callerVars, m_cameraRun, fieldVars, res, chan, status, frameHeld,
                 pair_id, image, xform, nOk, pubSeq, terminated>>

\* readFrameNew with the two continue branches missing: a timed-out or
\* not-ready read falls through to the failure test and leaves the loop
WorkerReadFrame_noContinue ==
  /\ WStep("read")
  /\ \E st \in ReadStatuses :
       /\ st = "DW_SUCCESS" => nOk < MaxReads
       /\ status' = st
       /\ IF st # "DW_SUCCESS"
          THEN /\ Break
               /\ UNCHANGED <<frameHeld, nOk>>
          ELSE /\ wpc' = "getImage"
               /\ frameHeld' = TRUE
               /\ nOk' = nOk + 1
               /\ UNCHANGED wexit
  /\ xform' = "none"
  /\ UNCHANGED <<callerVars, m_cameraRun, fieldVars, res, chan, pair_id, image,
                 pubSeq, terminated>>

\* dwSensorCamera_readFrameNew and the classification of its status
WorkerReadFrame ==
  /\ WStep("read")
  /\ \E st \in ReadStatuses :
       /\ st = "DW_SUCCESS" => nOk < MaxReads
       /\ status' = st
       /\ IF st \in {"DW_TIME_OUT", "DW_NOT_READY"}
          THEN /\ wpc' = "top"
               /\ UNCHANGED <<wexit, frameHeld, nOk>>
          ELSE IF st # "DW_SUCCESS"
          THEN /\ Break
               /\ UNCHANGED <<frameHeld, nOk>>
          ELSE /\ wpc' = "getImage"
               /\ frameHeld' = TRUE
               /\ nOk' = nOk + 1
               /\ UNCHANGED wexit
  /\ xform' = "none"
  /\ UNCHANGED <<callerVars, m_cameraRun, fieldVars, res, chan, pair_id, image,
                 pubSeq, terminated>>

\* a device pipeline call whose failure breaks out of the loop
WorkerCall(at, next) ==
  /\ WStep(at)
  /\ \E st \in Statuses :
       /\ status' = st
       /\ IF st # "DW_SUCCESS"
          THEN Break
          ELSE /\ wpc' = next
               /\ UNCHANGED wexit
  /\ UNCHANGED <<callerVars, m_cameraRun, fieldVars, res, chan, frameHeld, pair_id,
                 image, xform, nOk, pubSeq, terminated>>

\* dwSensorCamera_getImage
WorkerGetImage ==
  WorkerCall("getImage", "convert")

\* dwImage_copyConvert, then the branch on m_shrinkFactor
WorkerCopyConvert ==
  WorkerCall("convert", IF ResizeEnabled THEN "resize" ELSE "send")

\* dwImageTransformation_copyFullImage: its result is dropped and the test
\* that follows reads the status left by copyConvert
WorkerCopyFullImage ==
  /\ WStep("resize")
  /\ \E st \in Statuses : xform' = st
  /\ IF status # "DW_SUCCESS"
     THEN Break
     ELSE /\ wpc' = "send"
          /\ UNCHANGED wexit
  /\ UNCHANGED <<callerVars, m_cameraRun, fieldVars, res, chan, status, frameHeld,
                 pair_id, image, nOk, pubSeq, terminated>>

\* dwImageStreamer_producerSend: under CHECK_DW_ERROR when resizing (the
\* exception leaves the thread function: std::terminate), else break
WorkerProducerSend ==
  /\ ~terminated
  /\ wpc = "send"
  /\ UNCHANGED <<timestamp, stamp>>
  /\ sentBuf' = IF ResizeEnabled THEN <<"resized", m_imageResized>>
                                 ELSE <<"rgba", m_rgbaFrame>>
  /\ \E st \in Statuses :
       IF st = "DW_SUCCESS"
       THEN /\ chan' = [chan EXCEPT ![m_streamer] = <<"send">>]
            /\ wpc' = "recv"
            /\ status' = IF ResizeEnabled THEN status ELSE st
            /\ UNCHANGED <<wexit, terminated>>
       ELSE IF ResizeEnabled
       THEN /\ terminated' = TRUE
            /\ UNCHANGED <<chan, wpc, status, wexit>>
       ELSE /\ status' = st
            /\ Break
            /\ UNCHANGED <<chan, terminated>>
  /\ UNCHANGED <<callerVars, m_cameraRun, fieldVars, res, frameHeld, pair_id, image,
                 xform, nOk, pubSeq>>

\* dwImageStreamer_consumerReceive
WorkerConsumerReceive ==
  /\ WStep("recv")
  /\ \E st \in Statuses :
       /\ status' = st
       /\ IF st # "DW_SUCCESS"
          THEN /\ Break
               /\ UNCHANGED chan
          ELSE /\ chan' = [chan EXCEPT ![m_streamer] = Append(@, "receive")]
               /\ wpc' = "getProps"
               /\ UNCHANGED wexit
  /\ UNCHANGED <<callerVars, m_cameraRun, fieldVars, res, frameHeld, pair_id, image,
                 xform, nOk, pubSeq, terminated>>

\* dwImage_getProperties
WorkerGetProperties ==
  WorkerCall("getProps", "getCPU")

\* dwImage_getCPU
WorkerGetCPU ==
  WorkerCall("getCPU", "build")

\* unsigned int pair_id = 0; ... image->header.seq = pair_id; pair_id++;
WorkerBuildMessage ==
  /\ WStep("build")
  /\ LET fresh == 0
     IN /\ image' = fresh
        /\ pair_id' = fresh + 1
  /\ wpc' = "consumerReturn"
  /\ UNCHANGED <<callerVars, m_cameraRun, fieldVars, res, chan, status, frameHeld,
                 xform, nOk, pubSeq, wexit, terminated>>

\* dwImageStreamer_consumerReturn
WorkerConsumerReturn ==
  /\ WStep("consumerReturn")
  /\ chan' = [chan EXCEPT ![m_streamer] = Append(@, "consumerReturn")]
  /\ wpc' = "producerReturn"
  /\ UNCHANGED <<callerVars, m_cameraRun, fieldVars, res, status, frameHeld, pair_id,
                 image, xform, nOk, pubSeq, wexit, terminated>>

\* an iteration that publishes right after producerReturn, the frame not
\* yet returned to the sensor
WorkerProducerReturn_thenPublish ==
  /\ WStep("producerReturn")
  /\ chan' = [chan EXCEPT ![m_streamer] = Append(@, "producerReturn")]
  /\ wpc' = "publish"
  /\ UNCHANGED <<callerVars, m_cameraRun, fieldVars, res, status, frameHeld, pair_id,
                 image, xform, nOk, pubSeq, wexit, terminated>>

\* the iteration without its producerReturn call
WorkerProducerReturn_skipped ==
  /\ WStep("producerReturn")
  /\ wpc' = "returnFrame"
  /\ UNCHANGED <<callerVars, m_cameraRun, fieldVars, res, chan, status, frameHeld,
                 pair_id, image, xform, nOk, pubSeq, wexit, terminated>>

\* dwImageStreamer_producerReturn
WorkerProducerReturn ==
  /\ WStep("producerReturn")
  /\ chan' = [chan EXCEPT ![m_streamer] = Append(@, "producerReturn")]
  /\ wpc' = "returnFrame"
  /\ UNCHANGED <<callerVars, m_cameraRun, fieldVars, res, status, frameHeld, pair_id,
                 image, xform, nOk, pubSeq, wexit, terminated>>

\* dwSensorCamera_returnFrame
WorkerReturnFrame ==
  /\ WStep("returnFrame")
  /\ frameHeld' = FALSE
  /\ wpc' = "publish"
  /\ UNCHANGED <<callerVars, m_cameraRun, fieldVars, res, chan, status, pair_id,
                 image, xform, nOk, pubSeq, wexit, terminated>>

\* m_cameraPub.publish(image), then the next iteration
WorkerPublish ==
  /\ WStep("publish")
  /\ pubSeq' = Append(pubSeq, image)
  /\ wpc' = "top"
  /\ UNCHANGED <<callerVars, m_cameraRun, fieldVars, res, chan, status, frameHeld,
                 pair_id, image, xform, nOk, wexit, terminated>>

\* ---------------------------------------------------------- specification
Caller ==
  \/ Initialize
  \/ StartCreateSensor
  \/ StartGetImageProperties
  \/ StartCreateRgba
  \/ StartCreateResized
  \/ StartStreamerInit
  \/ StartSensorStart
  \/ StartSpawn
  \/ StartSetRun
  \/ StopEnter
  \/ StopJoin
  \/ StopReleaseStreamer
  \/ StopDestroyRgba
  \/ StopDestroyResized
  \/ StopReleaseSensor

Worker ==
  \/ WorkerTestRun
  \/ WorkerReadFrame
  \/ WorkerGetImage
  \/ WorkerCopyConvert
  \/ WorkerCopyFullImage
  \/ WorkerProducerSend
  \/ WorkerConsumerReceive
  \/ WorkerGetProperties
  \/ WorkerGetCPU
  \/ WorkerBuildMessage
  \/ WorkerConsumerReturn
  \/ WorkerProducerReturn
  \/ WorkerReturnFrame
  \/ WorkerPublish

Next ==
  \/ Caller
  \/ Worker

Spec ==
  Init /\ [][Next]_vars

\* the steps of start after its entry
StartSteps ==
  \/ StartGetImageProperties
  \/ StartCreateRgba
  \/ StartCreateResized
  \/ StartStreamerInit
  \/ StartSensorStart
  \/ StartSpawn
  \/ StartSetRun

\* the scheduler runs the worker thread, and a stop call in progress runs on
StopSteps ==
  \/ StopJoin
  \/ StopReleaseStreamer
  \/ StopDestroyRgba
  \/ StopDestroyResized
  \/ StopReleaseSensor

LiveSpec ==
  Init /\ [][Next]_vars /\ WF_vars(Worker) /\ WF_vars(StopSteps)

\* a caller that only calls start and stop, and start only while not running
GuardedStart ==
  /\ ~m_cameraRun
  /\ StartCreateSensor

GuardedNext ==
  \/ GuardedStart
  \/ StartSteps
  \/ StopEnter
  \/ StopSteps
  \/ Worker

GuardedSpec ==
  Init /\ [][GuardedNext]_vars

\* ------------------------------------------------ timestamp conversion
\* the divisor and the factor of lines 277-278
MicrosPerSec ==
  1000000

NanosPerMicro ==
  1000

\* 2^32 seconds in microseconds, as limbs: 1000000 * 2^32
WrapTime == <<0, 0, 0, 0, 64, 66, 15, 0>>

\* values of dwTime_t (int64, not negative): 0, 999999, 1000000, 1500250 and
\* 2^24 - 1 microseconds, with bits 24..31 clear, one or all set, below and
\* from 2^32 seconds on
Timestamps ==
  {lo \o <<b>> \o hi :
     lo \in {<<0, 0, 0>>, <<63, 66, 15>>, <<64, 66, 15>>, <<90, 228, 22>>,
             <<255, 255, 255>>},
     b \in {0, 1, 255},
     hi \in {<<0, 0, 0, 0>>, <<63, 66, 15, 0>>, <<64, 66, 15, 0>>,
             <<255, 255, 255, 127>>}}

\* long division of the limbs t[1..k] (high limb first) by d, with the
\* remainder rem carried in from the limbs above
RECURSIVE DivFrom(_, _, _, _)
DivFrom(t, k, d, rem) ==
  IF k = 0
  THEN [q |-> <<>>, r |-> rem]
  ELSE LET cur == rem * 256 + t[k]
           rest == DivFrom(t, k - 1, d, cur % d)
       IN [q |-> Append(rest.q, cur \div d), r |-> rest.r]

\* the conversion to the 32-bit unsigned field keeps the low four limbs
ToUInt32(x) ==
  SubSeq(x, 1, 4)

\* stamp.sec = timestamp / 1000000L; stamp.nsec = (timestamp % 1000000L) * 1000
StampOf(t) ==
  LET d == DivFrom(t, Len(t), MicrosPerSec, 0)
  IN [sec |-> ToUInt32(d.q), nsec |-> d.r * NanosPerMicro]

\* lines 275-278 applied to the timestamp the image carries
StampConvert ==
  /\ stamp = <<>>
  /\ stamp' = StampOf(timestamp)
  /\ UNCHANGED <<callerVars, m_cameraRun, fieldVars, res, chan, workerVars, sentBuf,
                 terminated, timestamp>>

StampInit ==
  /\ Constructed
  /\ timestamp \in Timestamps

StampNext ==
  StampConvert

StampSpec == StampInit /\ [][StampNext]_vars

\* ================================================================= claims

\* C1: when start has returned false, no resource created by that call is
\* still allocated (sensor handle, converted buffer, resized buffer, channel).
C1_StartFalseReleasesAll ==
  (cpc = "idle" /\ op = "start" /\ ret = "false")
    => \A k \in Kinds : res[k][ncalls] # "live"

\* C2: whenever the worker is between iterations or has left the loop, the
\* frame it read has been returned to the sensor.
C2_FrameReturnedOnEveryExit ==
  wpc \in {"top", "done"} => ~frameHeld

\* a send was made on the registration with this log
SentBefore(log) ==
  log # <<>> /\ log[1] = "send"

\* C3: whenever the worker is about to producer-send, the slot of the channel
\* registration it sends on is free: the calls made on it since the previous
\* send are exactly one consumer-receive, one consumer-return and one
\* producer-return, in that order.
C3_SingleSlotDiscipline ==
  wpc = "send" =>
    \/ ~SentBefore(chan[m_streamer])
    \/ chan[m_streamer] = <<"send", "receive", "consumerReturn", "producerReturn">>

\* C3 witness: a second send on a registration whose first cycle completed
C3_Witness ==
  /\ wpc = "send"
  /\ Len(pubSeq) >= 1
  /\ SentBefore(chan[m_streamer])
  /\ res["streamer"][m_streamer] = "live"

\* C4: the sequence ids of the messages emitted in a session are 0, 1, 2, ...
C4_SequenceIds ==
  \A i \in 1..Len(pubSeq) : pubSeq[i] = i - 1

\* C5: once start has returned true (and no other call was made since), the
\* worker has not left the loop because it read the running flag as false.
C5_LoopRunsAfterStart ==
  (cpc = "idle" /\ op = "start" /\ ret = "true")
    => ~(wpc = "done" /\ wexit = "flag")

\* the handles the worker's next call passes to the device pipeline
WorkerUses ==
  CASE wpc = "read" -> {<<"sensor", m_camera>>}
    [] wpc = "convert" -> {<<"rgba", m_rgbaFrame>>}
    [] wpc = "resize" -> {<<"rgba", m_rgbaFrame>>, <<"resized", m_imageResized>>}
    [] wpc = "send" -> {<<"streamer", m_streamer>>,
                        IF ResizeEnabled THEN <<"resized", m_imageResized>>
                                         ELSE <<"rgba", m_rgbaFrame>>}
    [] wpc \in {"recv", "consumerReturn", "producerReturn"} ->
                       {<<"streamer", m_streamer>>}
    [] OTHER -> {}

\* C6: every handle the worker is about to use is allocated and not released.
C6_NoUseAfterRelease ==
  \A u \in WorkerUses : u[2] # NULL /\ res[u[1]][u[2]] = "live"

\* C7: a stop call that found the instance running returns true.
C7_StopReturns ==
  (cpc = "stop_join") ~> (cpc = "idle" /\ op = "stop" /\ ret = "true")

\* the step that enters stop
StopCall ==
  /\ cpc = "idle"
  /\ ncalls' = ncalls + 1
  /\ op' = "stop"

\* C8: a stop call made when not running (the flag is clear; in particular as
\* the first call, after a start that returned false with no worker left, or
\* right after a completed stop) returns false at once and changes nothing.
C8_StopNotRunning ==
  [][(StopCall /\ (\/ ~m_cameraRun
                   \/ ncalls = 0
                   \/ (op = "start" /\ ret = "false" /\ wpc = "none")
                   \/ (op = "stop" /\ ret \in {"true", "false"})))
       => /\ ret' = "false"
          /\ cpc' = "idle"
          /\ UNCHANGED <<m_cameraRun, fieldVars, res, chan, workerVars, terminated>>]_vars

\* C8 witness: stop has returned false after a session was stopped and released
C8_Witness ==
  /\ cpc = "idle" /\ op = "stop" /\ ret = "false"
  /\ \E i \in Ids : res["streamer"][i] = "released" /\ res["sensor"][i] = "released"
  /\ wpc = "none"

\* the worker's read returned with a transient status
TransientRead ==
  /\ wpc = "read"
  /\ wpc' # "read"
  /\ status' \in {"DW_TIME_OUT", "DW_NOT_READY"}

\* C9: a read that times out or is not ready touches nothing and the loop goes
\* to its next test of the flag, from which it reads again while still running;
\* between iterations the published messages number the successful reads.
C9_TransientRead ==
  /\ [](((wpc \in {"top", "read"}) \/ (wpc = "done" /\ wexit = "flag"))
          => Len(pubSeq) = nOk)
  /\ [][TransientRead
          => /\ wpc' = "top"
             /\ UNCHANGED <<res, chan, frameHeld, nOk, pubSeq, image, wexit,
                            terminated>>]_vars
  /\ [][(wpc = "top" /\ wpc' # "top" /\ m_cameraRun) => wpc' = "read"]_vars

\* C9 witness: after one message, a read timed out and the loop reads again
C9_Witness ==
  /\ wpc = "read"
  /\ status \in {"DW_TIME_OUT", "DW_NOT_READY"}
  /\ m_cameraRun
  /\ nOk = 1 /\ Len(pubSeq) = 1

\* a call of the worker returned a status that is fatal to the session
FatalStep ==
  /\ wpc \in {"read", "getImage", "convert", "send", "recv", "getProps", "getCPU"}
  /\ \/ /\ wpc' # wpc
        /\ status' \notin {"DW_SUCCESS", "DW_TIME_OUT", "DW_NOT_READY"}
     \/ terminated' # terminated

\* C10: a fatal status ends the loop for good: the worker exits (or the
\* process ends), it reads and publishes nothing more, only stop's join
\* removes it and only a later start spawns a worker again; after end of
\* stream the published messages number the successful reads.
C10_FatalExitsLoop ==
  /\ [][FatalStep => (wpc' = "done" \/ terminated') /\ pubSeq' = pubSeq]_vars
  /\ [][wpc = "done" => /\ wpc' \in {"done", "none"}
                        /\ pubSeq' = pubSeq /\ nOk' = nOk]_vars
  /\ [][(wpc = "done" /\ wpc' = "none") => (op = "stop" /\ cpc = "stop_join")]_vars
  /\ [][(wpc = "none" /\ wpc' # "none") => (op = "start" /\ cpc = "start_spawn")]_vars
  /\ []((wpc = "done" /\ status = "DW_END_OF_STREAM") => Len(pubSeq) = nOk)

\* C10 witness: end of stream on the third read, two messages published
C10_Witness ==
  /\ wpc = "done"
  /\ wexit = "fatal"
  /\ status = "DW_END_OF_STREAM"
  /\ nOk = 2 /\ Len(pubSeq) = 2

\* the caller is between calls, the last call was a start that returned true,
\* and the worker of that session has left its loop on a fatal status
ExitedSession ==
  /\ cpc = "idle" /\ op = "start" /\ ret = "true"
  /\ wpc = "done" /\ wexit = "fatal"

\* the resources of the session that start number id created are all live
SessionLive(id) ==
  /\ res["streamer"][id] = "live"
  /\ res["rgba"][id] = "live"
  /\ res["sensor"][id] = "live"
  /\ res["resized"][id] = IF ResizeEnabled THEN "live" ELSE "none"

\* the resources of the session that start number id created have each been
\* released once (there is no resized buffer unless resizing is enabled)
SessionReleased(id) ==
  /\ res["streamer"][id] = "released"
  /\ res["rgba"][id] = "released"
  /\ res["sensor"][id] = "released"
  /\ res["resized"][id] = IF ResizeEnabled THEN "released" ELSE "none"

\* C11: after the loop of a started session has exited on a fatal status the
\* flag is still set and the session's resources are still allocated; a stop
\* called then passes the guard, and once it has returned (true) the channel,
\* the converted buffer, the resized buffer (if any) and the sensor are
\* released and the worker is joined; the stop after that returns false and
\* releases nothing.
C11_StopAfterFatalExit ==
  /\ [](ExitedSession
         => /\ m_cameraRun
            /\ SessionLive(ncalls)
            /\ m_streamer = ncalls /\ m_rgbaFrame = ncalls /\ m_camera = ncalls)
  /\ [][(StopCall /\ ExitedSession)
         => cpc' = "stop_join" /\ ~m_cameraRun' /\ res' = res]_vars
  /\ []((op = "stop" /\ cpc = "idle" /\ prev = <<"start", "true">> /\ wexit = "fatal")
         => /\ ret = "true"
            /\ SessionReleased(ncalls - 1)
            /\ wpc = "none" /\ ~m_cameraRun)
  /\ [][(StopCall /\ op = "stop" /\ ret = "true")
         => ret' = "false" /\ cpc' = "idle" /\ res' = res]_vars

\* C11 witness: a session exited on a fatal status, stop returned true and the
\* stop after it has returned false
C11_Witness ==
  /\ cpc = "idle" /\ op = "stop" /\ ret = "false"
  /\ prev = <<"stop", "true">>
  /\ wexit = "fatal"
  /\ SessionReleased(ncalls - 2)

\* C12: when the transform of the converted buffer into the resized buffer
\* fails, the worker leaves the loop at once on a fatal exit: the resized
\* buffer is not sent and no message is published for the frame.
C12_ResizeFailureIsFatal ==
  [][(wpc = "resize" /\ wpc' # wpc /\ xform' # "DW_SUCCESS")
       => /\ wpc' = "done" /\ wexit' = "fatal"
          /\ chan' = chan /\ pubSeq' = pubSeq]_vars

\* the worker's producerSend returned a failure (nothing entered the channel);
\* the caller is not at the thread assignment, so the step is the worker's
SendFailure ==
  /\ wpc = "send"
  /\ cpc # "start_spawn"
  /\ chan' = chan
  /\ (wpc' # wpc \/ terminated' # terminated)

\* C13: a failed producerSend, with resizing enabled or not, makes the worker
\* leave the loop and return normally (it can then be joined); it never ends
\* the process.
C13_SendFailureExitsLoop ==
  [][SendFailure => wpc' = "done" /\ wexit' = "fatal" /\ ~terminated']_vars

\* C14: a start call ends by returning false or true; a first start that
\* returned false leaves the flag clear and no worker, and one that returned
\* true has passed every construction step, spawned the worker and set the
\* flag.
C14_StartReturnsBoolean ==
  (cpc = "idle" /\ op = "start")
    => /\ ret \in {"true", "false"}
       /\ (ret = "false" /\ ncalls = 1) => (~m_cameraRun /\ wpc = "none")
       /\ (ret = "true" /\ ncalls = 1)
            => /\ m_cameraRun /\ wpc # "none"
               /\ res["sensor"][1] = "live" /\ res["rgba"][1] = "live"
               /\ res["streamer"][1] = "live"

\* d is x divided by the shrink factor with the fraction dropped
IsTruncatedQuotient(d, x) ==
  /\ d * m_shrinkFactor <= x * 10
  /\ x * 10 < (d + 1) * m_shrinkFactor

\* C15: resize gating. With a factor of at most 1.0 start never enters the
\* resize block, no resized buffer and no transformation engine exist, the
\* streamer is registered with the native size and every send passes the rgba
\* buffer. With a factor above 1.0 every resized buffer has the native width
\* and height divided by the factor, fraction dropped (1920x1080 at 2.0 is
\* 960x540), the streamer is registered with that size and every send passes
\* the resized buffer. The rgba buffer always has the native size.
C15_ResizeGating ==
  /\ [](\A i \in Ids : res["rgba"][i] # "none" => dims["rgba"][i] = native)
  /\ [](~ResizeEnabled
          => /\ cpc # "start_resize"
             /\ m_imageResized = NULL /\ m_engine = NULL
             /\ \A i \in Ids :
                  /\ res["resized"][i] = "none"
                  /\ res["streamer"][i] # "none" => dims["streamer"][i] = native)
  /\ [](ResizeEnabled
          => \A i \in Ids :
               /\ res["resized"][i] # "none"
                    => /\ IsTruncatedQuotient(dims["resized"][i][1], native[1])
                       /\ IsTruncatedQuotient(dims["resized"][i][2], native[2])
                       /\ (native = <<1920, 1080>> /\ m_shrinkFactor = 20)
                            => dims["resized"][i] = <<960, 540>>
               /\ res["streamer"][i] # "none"
                    => /\ res["resized"][i] # "none"
                       /\ dims["streamer"][i] = dims["resized"][i])
  /\ [][(wpc = "send" /\ wpc' = "recv")
         => sentBuf' = IF m_shrinkFactor > 10 THEN <<"resized", m_imageResized>>
                                             ELSE <<"rgba", m_rgbaFrame>>]_vars
  /\ [](sentBuf[1] \in {"none", IF m_shrinkFactor > 10 THEN "resized" ELSE "rgba"})

\* C15 witness: a 1921x1081 sensor at factor 2.0; the streamer is registered
\* with 960x540 and a message was published from the resized buffer
C15_Witness ==
  /\ m_shrinkFactor = 20 /\ native = <<1921, 1081>>
  /\ dims["streamer"][1] = <<960, 540>>
  /\ sentBuf = <<"resized", 1>>
  /\ Len(pubSeq) = 1

\* the limbs of x * m + carry, limb i onward (a carry out of the top limb
\* lengthens the result)
RECURSIVE MulAddFrom(_, _, _, _)
MulAddFrom(x, i, m, carry) ==
  IF i > Len(x)
  THEN IF carry = 0 THEN <<>> ELSE <<carry>>
  ELSE LET cur == x[i] * m + carry
       IN <<cur % 256>> \o MulAddFrom(x, i + 1, m, cur \div 256)

\* a < b for limb sequences of the same length, compared from limb k down
RECURSIVE LessFrom(_, _, _)
LessFrom(a, b, k) ==
  IF k = 0 THEN FALSE
  ELSE IF a[k] # b[k] THEN a[k] < b[k]
  ELSE LessFrom(a, b, k - 1)

\* the emitted stamp is the timestamp split into whole seconds and the
\* nanoseconds of the rest: nsec is a whole number of microseconds below one
\* second, and sec * 1000000 + nsec / 1000 is the timestamp again
ExactStamp ==
  /\ stamp.nsec < 1000000000
  /\ stamp.nsec % 1000 = 0
  /\ MulAddFrom(stamp.sec \o <<0, 0, 0, 0>>, 1, 1000000, stamp.nsec \div 1000)
       = timestamp
  /\ timestamp = <<90, 228, 22, 0, 0, 0, 0, 0>>
       => stamp = [sec |-> <<1, 0, 0, 0>>, nsec |-> 500250000]

\* C16: for every timestamp t >= 0 in microseconds the emitted stamp has
\* sec = floor(t / 1000000) and nsec = (t mod 1000000) * 1000, so that
\* nsec < 10^9 and sec * 1000000 + nsec / 1000 = t; 1500250 gives 1 and
\* 500250000.
C16_StampExact ==
  stamp # <<>> => ExactStamp

\* the stamp is exact for every timestamp below 2^32 seconds
StampExactBelowWrap ==
  (stamp # <<>> /\ LessFrom(timestamp, WrapTime, 8)) => ExactStamp

\* the conversion was applied to a timestamp below 2^32 seconds with a
\* fraction: 1500250 microseconds
StampExactBelowWrap_Witness ==
  /\ stamp # <<>>
  /\ timestamp = <<90, 228, 22, 0, 0, 0, 0, 0>>
  /\ stamp.sec = <<1, 0, 0, 0>> /\ stamp.nsec = 500250000

\* C19: for every sequence of calls, start reaches the assignment of the
\* thread only when no worker exists: it never spawns a second worker and
\* never replaces one that has not been joined.
C19_AtMostOneWorker ==
  cpc = "start_spawn" => wpc = "none"

\* stop's steps after the guard, in program order
StopOrder == <<"stop_join", "stop_streamer", "stop_rgba", "stop_resized", "stop_sensor", "idle">>

\* the kind of handle that the stop step at position n of StopOrder releases
StopReleases == <<"worker", "streamer", "rgba", "resized", "sensor">>

After(pc) ==
  CASE pc = "top" -> {"read", "done"}
    [] pc = "read" -> {"top", "getImage", "done"}
    [] pc = "getImage" -> {"convert", "done"}
    [] pc = "convert" -> {IF ResizeEnabled THEN "resize" ELSE "send", "done"}
    [] pc = "resize" -> {"send", "done"}
    [] pc = "send" -> {"recv", "done"}
    [] pc = "recv" -> {"getProps", "done"}
    [] pc = "getProps" -> {"getCPU", "done"}
    [] pc = "getCPU" -> {"build", "done"}
    [] pc = "build" -> {"consumerReturn"}
    [] pc = "consumerReturn" -> {"producerReturn"}
    [] pc = "producerReturn" -> {"returnFrame"}
    [] pc = "returnFrame" -> {"publish"}
    [] pc = "publish" -> {"top"}
    [] pc = "done" -> {"none"}
    [] OTHER -> {"top"}

\* C18: the worker's steps follow the order read, getImage, convert, (resize),
\* send, receive, properties, message, consumerReturn, producerReturn,
\* returnFrame, publish; a message is added only by the publish step, one per
\* iteration, when the frame is back at the sensor; the next read follows the
\* test of the flag that follows the publish.
C18_IterationOrder ==
  /\ [][wpc' # wpc => wpc' \in After(wpc)]_vars
  /\ [][(pubSeq' # pubSeq /\ wpc # "none")
         => /\ wpc = "publish" /\ wpc' = "top"
            /\ pubSeq' = Append(pubSeq, image)
            /\ ~frameHeld
            /\ Len(pubSeq') = nOk]_vars
  /\ [](wpc = "publish" => ~frameHeld /\ Len(pubSeq) = nOk - 1)
  /\ [][(wpc' = "read" /\ wpc # "read") => wpc = "top" /\ Len(pubSeq) = nOk]_vars
  /\ [](Len(pubSeq) \in {nOk, nOk - 1})

\* C18 witness: the second iteration has published its message
C18_Witness ==
  /\ wpc = "top"
  /\ nOk = 2 /\ Len(pubSeq) = 2
  /\ ~frameHeld

\* C20: when start is only called while not running, no sensor handle, image
\* buffer or streamer is passed to its release operation a second time, through
\* failed starts, sessions that exited on a fatal status and restarts over
\* stale handle fields alike.
C20_NoDoubleRelease ==
  \A k \in Kinds : \A i \in Ids : res[k][i] # "double"

\* C20 witness: after a session was stopped and released, a second start
\* failed at the streamer and rolled back while m_streamer still named the
\* released streamer of the first session
C20_Witness ==
  /\ cpc = "idle" /\ op = "start" /\ ret = "false" /\ ncalls = 3
  /\ m_streamer = 1 /\ res["streamer"][1] = "released"
  /\ m_rgbaFrame = 3 /\ res["rgba"][3] = "released"
  /\ res["sensor"][3] = "released"

====
